---------------------------- MODULE Spec2Model ----------------------------
(***************************************************************************)
(* Model of the procedural convolution reverb engine                       *)
(* (src/src/c/convolution_engine.c) and of its exported bridge             *)
(* (src/src/c/wasm_bridge.c).                                              *)
(*                                                                         *)
(* Representation.                                                         *)
(*  - Parameters (float/double in the source) are integers in thousandths: *)
(*    50000 is 50.0, 2500 is 2.5 s, the 0.01 tolerance is 10.  At this      *)
(*    resolution the float narrowing of old_value (line 847) is exact.     *)
(*  - The impulse-response buffer (720000 doubles) is represented by        *)
(*    whether it is allocated and by the inputs of the synthesis that last  *)
(*    filled it (noise state at entry, variant, sample rate, parameters);   *)
(*    a zero-filled buffer has the empty tuple.                            *)
(*  - conv_history is zero-filled except for the samples written since it  *)
(*    was last cleared; these are kept as a sequence: data[k+1] is the      *)
(*    content of slot k, every other slot is zero.                         *)
(*  - A dereference of a NULL buffer is undefined behaviour; the model      *)
(*    records it in the variable fault and stops the engine there.          *)
(*  - The number of fast_rand draws of one synthesis depends on the values  *)
(*    drawn, so rand_state is kept as the seed together with the list of    *)
(*    the syntheses that have drawn from it since; two states are equal     *)
(*    exactly when the same syntheses ran in the same order from the seed.  *)
(*  - One output sample of the processing loop is computed in SampleSpec    *)
(*    over doubles extended by the infinities and NaN (scaled so that       *)
(*    DblMax stands for DBL_MAX); the variable probe holds its operands     *)
(*    and its result.  RandSpec and MixSpec apply fast_rand and the         *)
(*    dry/wet law in the same way; IndexSpec the history indices of one     *)
(*    sample, EarlySpec the write indices of one early-reflection tap,      *)
(*    TailSpec the reflection count of the tail, and PartitionSpec one      *)
(*    sample under two block lengths.                                      *)
(***************************************************************************)
EXTENDS Integers, Sequences, FiniteSets, TLC

(***************************************************************************)
(* Program constants.                                                      *)
(***************************************************************************)
MAX_IR_SECONDS == 15
MAX_IR_SIZE == MAX_IR_SECONDS * 48000
IR_TYPE_HALL == 0
IR_TYPE_CATHEDRAL == 1
IR_TYPE_ROOM == 2
IR_TYPE_PLATE == 3
IR_TYPE_SPRING == 4
IR_TYPE_CAVE == 5
IR_TYPE_SHIMMER == 6
IR_TYPE_FREEZE == 7
IR_TYPE_REVERSE == 8
IR_TYPE_GATED == 9
IR_TYPE_CHORUS == 10
IR_TYPE_ALIEN == 11
IR_TYPE_UNDERWATER == 12
IR_TYPE_METALLIC == 13
IR_TYPE_PSYCHEDELIC == 14
\* 0x7fffffff, the mask and divisor of fast_rand
RAND_MASK == 2147483647
\* multiplier and increment of fast_rand
RAND_MUL == 1103515245
RAND_INC == 12345
\* .rand_state of the static initializer
RAND_SEED == 123456789
\* the 0.01 of the fabs(...) > 0.01 comparisons, in thousandths
TOLERANCE == 10
\* "if (n <= 4096)" of the live-processing boost
LIVE_BLOCK == 4096
\* floor and cap of num_reflections
MIN_REFLECTIONS == 50000
MAX_REFLECTIONS == 200000

(***************************************************************************)
(* Bounds of the model.                                                    *)
(***************************************************************************)
\* calls of the engine in one behaviour
MaxSteps == 5
\* calls in one behaviour of the specification of the parameter writes
MaxWriteSteps == 4
\* nonzero slots of the history buffer, besides the one of the sample itself
MaxTerms == 2
\* largest finite sample value, in thousandths
DblMax == 2000000
\* longest input block handed to process
MaxBlock == 2
\* calls of fast_rand followed from one state
MaxDraws == 4

(***************************************************************************)
(* Integer helpers.                                                        *)
(***************************************************************************)
Abs(x) == IF x < 0 THEN -x ELSE x

Min(a, b) == IF a < b THEN a ELSE b

Max(a, b) == IF a > b THEN a ELSE b

\* C integer division and (int) conversion truncate toward zero
TruncDiv(a, b) == IF a >= 0 THEN a \div b ELSE -((-a) \div b)

\* floor(a * b / d) for a, b >= 0 and d > 0, without leaving 31 bits as long
\* as the result fits: the product is formed directly when it fits, otherwise
\* quotient and remainder are built by doubling
AddQR(r, x, d) == IF r >= d - x THEN [q |-> 1, r |-> r - (d - x)]
                  ELSE [q |-> 0, r |-> r + x]

MulDivQR[a \in Nat, b \in Nat, d \in Nat] ==
    IF b = 0 \/ a <= 2147483647 \div b
    THEN [q |-> (a * b) \div d, r |-> (a * b) % d]
    ELSE LET h   == MulDivQR[a, b \div 2, d]
             dbl == AddQR(h.r, h.r, d)
             q2  == 2 * h.q + dbl.q
             add == AddQR(dbl.r, a % d, d)
         IN  IF b % 2 = 1
             THEN [q |-> q2 + (a \div d) + add.q, r |-> add.r]
             ELSE [q |-> q2, r |-> dbl.r]

MulDivFloor(a, b, d) == MulDivQR[a, b, d].q

\* (int)(a * b / d) for b >= 0, d > 0 and any sign of a
MulDivTrunc(a, b, d) ==
    IF a >= 0 THEN MulDivFloor(a, b, d) ELSE -MulDivFloor(-a, b, d)

(***************************************************************************)
(* Deterministic noise source: fast_rand.                                  *)
(* rand_state is a uint32_t; "& 0x7fffffff" keeps the low 31 bits, so the   *)
(* step is (s * 1103515245 + 12345) mod 2^31.  The products are formed      *)
(* from 11-bit limbs so that no intermediate value leaves 31 bits.          *)
(***************************************************************************)
AddMod31(x, y) == IF x > RAND_MASK - y THEN (x - (RAND_MASK - y)) - 1 ELSE x + y

\* a * b mod 2^31 from the 11-bit limbs of a and b: the partial products
\* whose weight is 2^33 or more vanish, the others are reduced before they
\* are shifted
Limb(x, i) == (x \div (2048 ^ i)) % 2048

MulMod31(a, b) ==
    LET w0 == Limb(a, 0) * Limb(b, 0)
        w1 == ((Limb(a, 0) * Limb(b, 1) + Limb(a, 1) * Limb(b, 0)) % 1048576) * 2048
        w2 == ((Limb(a, 0) * Limb(b, 2) + Limb(a, 1) * Limb(b, 1)
                  + Limb(a, 2) * Limb(b, 0)) % 512) * 4194304
    IN  AddMod31(AddMod31(w0, w1), w2)

\* engine.rand_state after one call of fast_rand
fast_rand_state(s) == AddMod31(MulMod31(s, RAND_MUL), RAND_INC)

\* value returned by fast_rand, in millionths: (double)rand_state / 0x7fffffff
fast_rand(s) == MulDivFloor(fast_rand_state(s), 1000000, RAND_MASK)

(***************************************************************************)
(* IR synthesis: generate_impulse_response and its passes.                 *)
(***************************************************************************)
\* tap_times[] of generate_early_reflections, in tenths of a millisecond
tap_times == << 137, 193, 231, 297, 311, 379, 413, 437, 479, 533, 591,
                613, 671, 713, 737, 793, 831, 897, 973, 1011, 1079, 1133 >>

\* a length computed without the floor of sample_rate / 2
IrLengthNoFloor(decay_time, sample_rate) ==
    Min(MAX_IR_SIZE, MulDivTrunc(decay_time, sample_rate, 1000))

\* engine.ir_length as computed at the head of generate_impulse_response:
\* (int)(decay_time * sample_rate), capped at MAX_IR_SIZE, then raised to
\* sample_rate / 2
IrLength(decay_time, sample_rate) ==
    LET raw    == MulDivTrunc(decay_time, sample_rate, 1000)
        capped == IF raw > MAX_IR_SIZE THEN MAX_IR_SIZE ELSE raw
    IN  IF capped < TruncDiv(sample_rate, 2) THEN TruncDiv(sample_rate, 2)
        ELSE capped

\* pre_delay_samples = (int)(pre_delay * sample_rate / 1000.0)
PreDelaySamples(pre_delay, sample_rate) ==
    MulDivTrunc(pre_delay, sample_rate, 1000000)

\* tail_start = pre_delay_samples + (int)(0.02 * sample_rate)
TailStart(pre_delay, sample_rate) ==
    PreDelaySamples(pre_delay, sample_rate) + MulDivTrunc(sample_rate, 2, 100)

\* delay of tap i before the variant adjusts it:
\* pre_delay_samples + (int)(tap_times[i] * sample_rate / 1000.0 * room_scale)
\* with room_scale = 1.0 + (room_size / 20.0) * 4.0
TapDelay(i, room_size, pre_delay_samples, sample_rate) ==
    pre_delay_samples
      + MulDivTrunc(5000 + room_size, tap_times[i] * sample_rate, 50000000)

\* delay of tap i (1..22, the C index is i - 1) after the switch on the
\* variant, for the variants whose case changes it without a draw of noise
\* or a sine: ROOM, FREEZE and REVERSE; the other cases modelled (HALL,
\* which has no case, GATED and CHORUS) leave it as it is
EarlyDelay(i, ir_type, delay, pre_delay_samples, ir_length) ==
    CASE ir_type = IR_TYPE_ROOM ->
            IF (i - 1) % 4 = 0 THEN delay + 50 ELSE delay
      [] ir_type = IR_TYPE_FREEZE ->
            IF (i - 1) % 10 < 3 THEN pre_delay_samples + 100 ELSE delay
      [] ir_type = IR_TYPE_REVERSE -> ir_length - delay
      [] OTHER -> delay

\* GATED: "if (delay > pre_delay_samples + engine.sample_rate * 0.3) continue"
GatedOut(ir_type, delay, pre_delay_samples, sample_rate) ==
    /\ ir_type = IR_TYPE_GATED
    /\ 10 * (delay - pre_delay_samples) > 3 * sample_rate

\* CHORUS: the indices of "ir[delay + c * 20] += ..." for c = 0, 1, 2, each
\* under "if (delay + c * 20 < ir_length)"
ChorusWrites(ir_type, delay, ir_length) ==
    IF ir_type = IR_TYPE_CHORUS
    THEN { delay + c * 20 : c \in { q \in 0..2 : delay + q * 20 < ir_length } }
    ELSE {}

\* spread = (int)(10 * diffusion / 80.0)
Spread(diffusion) == MulDivTrunc(diffusion, 10, 80000)

\* the indices written by "for (j = -spread; j <= spread && delay + j <
\* ir_length && delay + j >= 0; j++) ir[delay + j] += ...": the loop ends at
\* the first j that fails the condition
SpreadWrites(delay, spread, ir_length) ==
    { delay + j : j \in { q \in (-spread)..spread :
                            \A r \in (-spread)..q :
                               delay + r < ir_length /\ delay + r >= 0 } }

\* the indices of the impulse response written for tap i by
\* generate_early_reflections
EarlyWrites(i, e) ==
    LET ir_length == IrLength(e.decay_time, e.sample_rate)
        pds       == PreDelaySamples(e.pre_delay, e.sample_rate)
        delay     == TapDelay(i, e.room_size, pds, e.sample_rate)
        moved     == EarlyDelay(i, e.ir_type, delay, pds, ir_length)
    IN  IF delay < ir_length /\ ~GatedOut(e.ir_type, delay, pds, e.sample_rate)
        THEN ChorusWrites(e.ir_type, delay, ir_length)
               \cup SpreadWrites(moved, Spread(e.diffusion), ir_length)
        ELSE {}

\* INT_MAX and INT_MIN of the 32-bit int
IntMax == 2147483647

IntMin == -2147483647 - 1

\* the truncation of a * b / d (b > 0, d > 0) does not fit an int: with
\* |a| = A * d + r its magnitude is A * b + r * b / d, compared with INT_MAX
\* (with -INT_MIN when a < 0) without forming a product beyond INT_MAX
ConversionOverflows(a, b, d) ==
    LET A     == Abs(a) \div d
        f     == MulDivFloor(Abs(a) % d, b, d)
        slack == IF a < 0 THEN 1 ELSE 0
    IN  IF A > (IntMax \div b) + 1 THEN TRUE
        ELSE IF A = 0 THEN FALSE
        ELSE (A - 1) * b - slack > (IntMax - f) - b

\* the count without the cap of 200000
ClampFloorOnly(raw) == IF raw < MIN_REFLECTIONS THEN MIN_REFLECTIONS ELSE raw

\* "if (num_reflections < 50000) num_reflections = 50000;
\*  if (num_reflections > 200000) num_reflections = 200000;"
ClampReflections(raw) ==
    LET lo == IF raw < MIN_REFLECTIONS THEN MIN_REFLECTIONS ELSE raw
    IN  IF lo > MAX_REFLECTIONS THEN MAX_REFLECTIONS ELSE lo

\* ir_length * 0.5 * density with density = 5.0 + (room_size / 20.0) * 50.0
\* is ir_length * (10000 + 5 * room_size) / 4000 for a room size in
\* thousandths; it leaves the range of int for a large room size
ReflectionsOverflow(ir_length, room_size) ==
    ConversionOverflows(10000 + 5 * room_size, ir_length, 4000)

\* num_reflections of generate_reverb_tail: (int)(ir_length * 0.5 * density),
\* then the floor of 50000 and the cap of 200000.  The conversion of a value
\* outside the range of int is undefined; conv is the int it yields then
NumReflections(ir_length, room_size, conv) ==
    ClampReflections(
        IF ReflectionsOverflow(ir_length, room_size) THEN conv
        ELSE MulDivTrunc(10000 + 5 * room_size, ir_length, 4000))

\* the parameters the synthesis reads
SynthParams(e) ==
    [ ir_type |-> e.ir_type, sample_rate |-> e.sample_rate,
      room_size |-> e.room_size, decay_time |-> e.decay_time,
      pre_delay |-> e.pre_delay, damping |-> e.damping,
      diffusion |-> e.diffusion, low_freq |-> e.low_freq,
      high_freq |-> e.high_freq, early_reflections |-> e.early_reflections ]

\* what the regenerated buffer is a function of: the noise state at entry and
\* the parameters
SynthInputs(e) == [ seed |-> e.rand_state, params |-> SynthParams(e) ]

\* engine.rand_state after the calls of fast_rand of one synthesis.  Their
\* number depends on the values drawn (a reflection that a variant drops or
\* that falls off the buffer draws fewer), so the state is kept as the seed
\* and the list of the syntheses run from it.  A synthesis makes at least
\* 50000 calls (one per reflection) and, for a diffusion of at most 100, at
\* most 200000 * 31 + 22 * 4, fewer than the period 2^31 of the generator:
\* it never leaves the state where it found it
DrawNoise(rand_state, e) ==
    [ rand_state EXCEPT !.runs = Append(@, SynthParams(e)) ]

\* the engine after generate_impulse_response has run on an allocated buffer
generate_impulse_response(e) ==
    [ e EXCEPT !.impulse_response = [alloc |-> TRUE, synth |-> <<SynthInputs(e)>>],
               !.ir_length = IrLength(e.decay_time, e.sample_rate),
               !.rand_state = DrawNoise(e.rand_state, e),
               !.ir_needs_update = 0 ]

(***************************************************************************)
(* Dry/wet law of process_convolution_, gains in thousandths.              *)
(***************************************************************************)
ISqrtF[n \in Nat, lo \in Nat, hi \in Nat] ==
    IF lo >= hi THEN lo
    ELSE LET mid == (lo + hi + 1) \div 2
         IN  IF mid * mid <= n THEN ISqrtF[n, mid, hi] ELSE ISqrtF[n, lo, mid - 1]

\* floor of the square root, for n < 10^8
ISqrt(n) == ISqrtF[n, 0, 10000]

\* sqrt, x^1.5 (x * sqrt x) and x^2.5 (x^2 * sqrt x) of a value in thousandths
SqrtMilli(x) == ISqrt(x * 1000)

Pow15(x) == (x * SqrtMilli(x)) \div 1000

Pow25(x) == (((x * x) \div 1000) * SqrtMilli(x)) \div 1000

\* dry_gain and wet_gain before the live boost, from engine.mix_level
\* (mix = mix_level / 100.0)
MixLaw(mix_level) ==
    IF mix_level < 1000 THEN
        [dry |-> 1000, wet |-> mix_level * 10]
    ELSE IF mix_level < 10000 THEN
        [dry |-> 1000, wet |-> 10 * Pow25(mix_level \div 10)]
    ELSE IF mix_level < 30000 THEN
        [dry |-> 1000 - ((mix_level - 10000) * 25) \div 1000,
         wet |-> 316 * Pow15((mix_level * 333) \div 10000)]
    ELSE IF mix_level < 50000 THEN
        [dry |-> (1000 - (mix_level - 30000) \div 50) \div 2,
         wet |-> 1000000 + (mix_level - 30000) * 50]
    ELSE IF mix_level < 80000 THEN
        [dry |-> (1000 - (mix_level - 50000) \div 50) \div 10,
         wet |-> 2 * (mix_level \div 50) * (mix_level \div 50)]
    ELSE
        [dry |-> 10,
         wet |-> 5120 * (((((mix_level \div 80) * (mix_level \div 80)) \div 1000)
                             * (mix_level \div 80)) \div 1000)]

\* the boost applied when the block has at most 4096 samples
LiveBoost(wet, n, ir_type) ==
    IF n <= LIVE_BLOCK
    THEN CASE ir_type = IR_TYPE_CATHEDRAL -> (wet * 5) * 2
           [] ir_type = IR_TYPE_PLATE -> ((wet * 5) * 18) \div 10
           [] ir_type = IR_TYPE_SPRING -> ((wet * 5) * 22) \div 10
           [] OTHER -> wet * 5
    ELSE wet

\* dry_gain and wet_gain used in the sample loop
MixGains(mix_level, n, ir_type) ==
    [dry |-> MixLaw(mix_level).dry,
     wet |-> LiveBoost(MixLaw(mix_level).wet, n, ir_type)]

(***************************************************************************)
(* The arithmetic of one output sample (lines 788-835).  A double is a      *)
(* finite value in thousandths of magnitude at most DblMax, an infinity or  *)
(* a NaN: [k |-> "fin", v |-> 700], [k |-> "inf", v |-> -1],                *)
(* [k |-> "nan", v |-> 0].  A result beyond DblMax overflows to an          *)
(* infinity, as IEEE 754 arithmetic does beyond DBL_MAX.                    *)
(***************************************************************************)
Fin(v) == [k |-> "fin", v |-> v]

Inf(sign) == [k |-> "inf", v |-> sign]

NaN == [k |-> "nan", v |-> 0]

Sign(v) == IF v < 0 THEN -1 ELSE 1

\* a + b
XAdd(a, b) ==
    CASE a.k = "nan" \/ b.k = "nan" -> NaN
      [] a.k = "inf" /\ b.k = "inf" -> IF a.v = b.v THEN a ELSE NaN
      [] a.k = "inf" -> a
      [] b.k = "inf" -> b
      [] OTHER -> IF a.v + b.v > DblMax THEN Inf(1)
                  ELSE IF a.v + b.v < -DblMax THEN Inf(-1)
                  ELSE Fin(a.v + b.v)

\* a * b: the product of two finite values overflows when its magnitude
\* |a.v| * |b.v| / 1000 exceeds DblMax
XMul(a, b) ==
    CASE a.k = "nan" \/ b.k = "nan" -> NaN
      [] a.k = "inf" \/ b.k = "inf" ->
            IF a.v = 0 \/ b.v = 0 THEN NaN ELSE Inf(Sign(a.v) * Sign(b.v))
      [] OTHER ->
            IF a.v = 0 \/ b.v = 0 THEN Fin(0)
            ELSE IF Abs(a.v) > ((DblMax + 1) * 1000 - 1) \div Abs(b.v)
                 THEN Inf(Sign(a.v) * Sign(b.v))
                 ELSE Fin(Sign(a.v) * Sign(b.v)
                            * MulDivFloor(Abs(a.v), Abs(b.v), 1000))

\* a > c for a finite c: false when a is a NaN
XGt(a, c) ==
    CASE a.k = "nan" -> FALSE
      [] a.k = "inf" -> a.v > 0
      [] OTHER -> a.v > c

\* a < c for a finite c: false when a is a NaN
XLt(a, c) ==
    CASE a.k = "nan" -> FALSE
      [] a.k = "inf" -> a.v < 0
      [] OTHER -> a.v < c

\* fabs(a) and -a
XAbs(a) == IF a.k = "nan" THEN a ELSE [a EXCEPT !.v = Abs(@)]

XNeg(a) == IF a.k = "nan" THEN a ELSE [a EXCEPT !.v = -@]

\* fmin(a, c) for a finite c: c when a is a NaN
XFmin(a, c) == IF XLt(a, c) THEN a ELSE Fin(c)

\* tanh(a) for a >= 0, to the value at the last of the points 0, 0.25, 0.5,
\* 1, 1.5, 2, 3, 4 that a has passed
XTanh(a) ==
    CASE a.k = "nan" -> NaN
      [] a.k = "inf" -> Fin(1000)
      [] a.v >= 4000 -> Fin(1000)
      [] a.v >= 3000 -> Fin(995)
      [] a.v >= 2000 -> Fin(964)
      [] a.v >= 1500 -> Fin(905)
      [] a.v >= 1000 -> Fin(762)
      [] a.v >= 500 -> Fin(462)
      [] a.v >= 250 -> Fin(245)
      [] OTHER -> Fin(0)

\* a slot of conv_history with the taps it meets
Terms == [h : Int, ir : Int, even : BOOLEAN, ird : Int]

\* the three convolution sums of one output sample.  terms lists, in the
\* order of their offsets j, the slots of conv_history that are not zero:
\* h is conv_history[hist_idx], ir is impulse_response[j], even says whether
\* j is even, and ird is the tap that the "delayed" loop multiplies with the
\* same slot (0 when that loop does not read the slot)
ConvSums[terms \in Seq(Terms)] ==
    IF terms = <<>>
    THEN [wet_sample |-> Fin(0), shimmer |-> Fin(0), delayed |-> Fin(0)]
    ELSE LET n    == Len(terms)
             t    == terms[n]
             rest == ConvSums[SubSeq(terms, 1, n - 1)]
             p    == XMul(Fin(t.h), Fin(t.ir))
         IN  [ wet_sample |-> XAdd(rest.wet_sample, p),
               shimmer |-> IF t.even
                           THEN XAdd(rest.shimmer, XMul(p, Fin(300)))
                           ELSE rest.shimmer,
               delayed |-> XAdd(rest.delayed,
                                XMul(XMul(Fin(t.h), Fin(t.ird)), Fin(200))) ]

\* wet_sample after "Combine all layers": the two extra sums are formed only
\* when engine.mix_level > 30
WetSample(terms, mix_level) ==
    LET sums == ConvSums[terms]
    IN  IF mix_level > 30000
        THEN XAdd(XAdd(sums.wet_sample, sums.delayed), sums.shimmer)
        ELSE sums.wet_sample

\* the compression stage: above 0.7 the magnitude becomes
\* fmin(0.7 + (abs_out - 0.7) * 0.3, 1.8) and the sign that of output[i]
\* when it is greater than 0, minus otherwise
Compress(out) ==
    IF XGt(XAbs(out), 700)
    THEN LET compressed ==
                 XFmin(XAdd(Fin(700),
                            XMul(XAdd(XAbs(out), Fin(-700)), Fin(300))), 1800)
         IN  IF XGt(out, 0) THEN compressed ELSE XNeg(compressed)
    ELSE out

\* the final limiter: 1.9 + 0.1 * tanh((output[i] - 1.9) * 10.0) above 1.9
\* and its mirror image below -1.9
Limit(out) ==
    IF XGt(out, 1900)
    THEN XAdd(Fin(1900),
              XMul(Fin(100), XTanh(XMul(XAdd(out, Fin(-1900)), Fin(10000)))))
    ELSE IF XLt(out, -1900)
         THEN XAdd(Fin(-1900),
                   XNeg(XMul(Fin(100),
                             XTanh(XMul(XAdd(XNeg(out), Fin(-1900)),
                                        Fin(10000))))))
         ELSE out

\* a % b of C for b > 0: the remainder has the sign of a
CRem(a, b) == IF a >= 0 THEN a % b ELSE -((-a) % b)

\* hist_idx = (history_pos - k + MAX_IR_SIZE) % MAX_IR_SIZE for the look-back
\* distance k
HistIdx(pos, k) == CRem(pos - k + MAX_IR_SIZE, MAX_IR_SIZE)

\* the look-back distance j * 3 / 2 of the "delayed" loop
DelayedLookBack(j) == (j * 3) \div 2

\* the reads of conv_history made for the offset j: by the primary loop, by
\* the "shimmer" loop (even j) and by the "delayed" loop (j < ir_len - 1)
\* when engine.mix_level > 30; k is the look-back distance, idx the index
HistoryReads(pos, j, ir_len, mix_level) ==
    { [layer |-> "primary", k |-> j, idx |-> HistIdx(pos, j)] }
      \cup ( IF mix_level > 30000 /\ j % 2 = 0
             THEN { [layer |-> "shimmer", k |-> j, idx |-> HistIdx(pos, j)] }
             ELSE {} )
      \cup ( IF mix_level > 30000 /\ j < ir_len - 1
             THEN { [layer |-> "delayed", k |-> DelayedLookBack(j),
                     idx |-> HistIdx(pos, DelayedLookBack(j))] }
             ELSE {} )

\* history_pos = (history_pos + 1) % MAX_IR_SIZE
NextPos(pos) == (pos + 1) % MAX_IR_SIZE

\* output[i] for the input sample x
OutputSample(x, terms, mix_level, n, ir_type) ==
    LET gains == MixGains(mix_level, n, ir_type)
        mixed == XAdd(XMul(Fin(gains.dry), Fin(x)),
                      XMul(Fin(gains.wet), WetSample(terms, mix_level)))
    IN  Limit(Compress(mixed))

(***************************************************************************)
(* State.                                                                  *)
(***************************************************************************)
VARIABLES
    engine,          \* static ConvolutionEngine engine
    conv_history,    \* static double* conv_history: [alloc, data]
    history_pos,     \* static int history_pos
    process_counter, \* static int process_counter
    g_sample_rate,   \* wasm_bridge.c: static int g_sample_rate
    g_initialized,   \* wasm_bridge.c: static int g_initialized
    output,          \* the output block written by the last call
    call,            \* the last call made: [op, arg]
    regen_calls,     \* number of calls of generate_impulse_response so far
    steps,           \* number of calls made so far
    probe,           \* a function computed apart from the engine: operands, result
    fault            \* TRUE once a NULL buffer has been dereferenced

vars == << engine, conv_history, history_pos, process_counter, g_sample_rate,
           g_initialized, output, call, regen_calls, steps, probe,
           fault >>

\* the call op(arg) is recorded, with whether it repeats the call before it
Called(op, arg) ==
    call' = [op |-> op, arg |-> arg, again |-> call.op = op /\ call.arg = arg]

\* one more call is made
Step == steps < MaxSteps /\ steps' = steps + 1 /\ UNCHANGED probe

\* a NULL pointer and a freshly calloc'ed (zero-filled) buffer
NullBuffer == [alloc |-> FALSE, synth |-> <<>>]

ZeroBuffer == [alloc |-> TRUE, synth |-> <<>>]

NullHistory == [alloc |-> FALSE, data |-> <<>>]

ZeroHistory == [alloc |-> TRUE, data |-> <<>>]

\* the static initializer of engine (fields not named there are zero / NULL)
EngineDefaults ==
    [ impulse_response |-> NullBuffer,
      overlap_buffer |-> FALSE, fft_buffer |-> FALSE, temp_buffer |-> FALSE,
      ir_length |-> 0, buffer_size |-> 0, overlap_size |-> 0,
      room_size |-> 50000, decay_time |-> 2500, pre_delay |-> 20000,
      damping |-> 50000, diffusion |-> 80000, low_freq |-> 50000,
      high_freq |-> 50000, early_reflections |-> 50000, late_mix |-> 50000,
      mix_level |-> 30000,
      sample_rate |-> 48000, ir_type |-> IR_TYPE_HALL,
      ir_needs_update |-> 1, initialized |-> 0,
      rand_state |-> [seed |-> RAND_SEED, runs |-> <<>>] ]

\* no sample is being computed apart from the engine
NoProbe == [phase |-> "off"]

EngineInit ==
    /\ engine = EngineDefaults
    /\ conv_history = NullHistory
    /\ history_pos = 0
    /\ process_counter = 0
    /\ g_sample_rate = 48000
    /\ g_initialized = 0
    /\ output = <<>>
    /\ call = [op |-> "none", arg |-> 0, again |-> FALSE]
    /\ regen_calls = 0
    /\ steps = 0
    /\ fault = FALSE

Init == EngineInit /\ probe = NoProbe

(***************************************************************************)
(* Inputs.                                                                 *)
(***************************************************************************)
\* the buffers calloc'ed by init_convolution_engine_
Buffers == {"impulse_response", "overlap_buffer", "fft_buffer", "temp_buffer",
            "conv_history"}

\* (sample rate, callocs that succeed) of one initialization: every calloc
\* succeeds at either rate, or one of the two buffers the engine reads is
\* refused
InitInputs ==
    { [sr |-> 48000, avail |-> Buffers],
      [sr |-> 96000, avail |-> Buffers],
      [sr |-> 48000, avail |-> Buffers \ {"impulse_response"}],
      [sr |-> 48000, avail |-> Buffers \ {"conv_history"}] }

\* sample values, in thousandths
Sample(i) == IF i % 2 = 1 THEN 1000 ELSE -500

\* input blocks: one of each length up to MaxBlock
Blocks == { [i \in 1..n |-> Sample(i)] : n \in 0..MaxBlock }

\* (identifier, value) pairs handed to set_param_float_, values in
\* thousandths: the eight identifiers of the switch and three it does not
\* know; values inside and outside the tolerance of the defaults and, for the
\* clamped fields, below and above the range; the room size 50.012 is within
\* the tolerance of 50.005 and outside that of the default 50.0
ParamWrites ==
    { <<0, 50005>>, <<0, 50012>>, <<0, 60000>>, <<1, 50>>, <<1, 12000>>, <<2, -5000>>,
      <<2, 150000>>, <<3, 80000>>, <<4, 20000>>, <<5, 30000>>, <<6, -10000>>,
      <<6, 45000>>, <<6, 120000>>, <<7, 0>>, <<-1, 60000>>, <<8, 60000>>,
      <<9, 60000>> }

\* the writes of the specifications that also exercise the rest of the
\* interface: room size inside and outside the tolerance, the mix, and an
\* identifier the switch does not know
CoreWrites == { <<0, 50005>>, <<0, 60000>>, <<6, 45000>>, <<8, 60000>> }

\* variant names, as character sequences; TypeNames[t + 1] is the name that
\* the strcmp chain of set_ir_type_ maps to variant t
TypeNames ==
    << <<"h","a","l","l">>,
       <<"c","a","t","h","e","d","r","a","l">>,
       <<"r","o","o","m">>,
       <<"p","l","a","t","e">>,
       <<"s","p","r","i","n","g">>,
       <<"c","a","v","e">>,
       <<"s","h","i","m","m","e","r">>,
       <<"f","r","e","e","z","e">>,
       <<"r","e","v","e","r","s","e">>,
       <<"g","a","t","e","d">>,
       <<"c","h","o","r","u","s">>,
       <<"a","l","i","e","n">>,
       <<"u","n","d","e","r","w","a","t","e","r">>,
       <<"m","e","t","a","l","l","i","c">>,
       <<"p","s","y","c","h","e","d","e","l","i","c">> >>

\* names handed to the variant setters: two the engine knows and one it
\* does not ("void" is a variant constant but not a name of the strcmp chain)
NameInputs == { TypeNames[IR_TYPE_HALL + 1], TypeNames[IR_TYPE_PLATE + 1],
                <<"v","o","i","d">> }

\* (string, length) pairs handed to set_ir_type_ directly: each name with its
\* own length, and "cathedral" with length 4
TypeArgs == { [str |-> nm, len |-> Len(nm)] : nm \in NameInputs }
              \cup { [str |-> TypeNames[IR_TYPE_CATHEDRAL + 1], len |-> 4] }

\* outcomes of the calloc of conv_history in process_convolution_, which is
\* made only when conv_history is NULL
HistOutcomes == IF conv_history.alloc THEN {TRUE} ELSE BOOLEAN

(***************************************************************************)
(* init_convolution_engine_                                                *)
(***************************************************************************)
\* an initialization that callocs every buffer anew
CallocAlways(p, null, zero, ok) == IF ok THEN zero ELSE null

\* "if (!p) p = calloc(...)": p afterwards, for a buffer that is either
\* NULL or allocated
Calloc(p, null, zero, ok) == IF p = null THEN (IF ok THEN zero ELSE null) ELSE p

InitEngine(sr, avail) ==
    /\ engine' = [ engine EXCEPT
          !.sample_rate = sr,
          !.ir_needs_update = 1,
          !.impulse_response =
              Calloc(@, NullBuffer, ZeroBuffer, "impulse_response" \in avail),
          !.overlap_buffer = Calloc(@, FALSE, TRUE, "overlap_buffer" \in avail),
          !.fft_buffer = Calloc(@, FALSE, TRUE, "fft_buffer" \in avail),
          !.temp_buffer = Calloc(@, FALSE, TRUE, "temp_buffer" \in avail),
          !.buffer_size = MAX_IR_SIZE * 2,
          !.initialized = 1 ]
    /\ conv_history' =
          Calloc(conv_history, NullHistory, ZeroHistory, "conv_history" \in avail)
    /\ output' = <<>>
    /\ UNCHANGED << history_pos, process_counter, regen_calls, fault >>

init_convolution_engine_(sr, avail) ==
    /\ ~fault
    /\ Step
    /\ InitEngine(sr, avail)
    /\ Called("init_convolution_engine_", sr)
    /\ UNCHANGED << g_sample_rate, g_initialized >>

(***************************************************************************)
(* process_convolution_                                                    *)
(***************************************************************************)
\* the guard of the pass-through: !engine.initialized || !engine.impulse_response
NotReady(e) == e.initialized = 0 \/ ~e.impulse_response.alloc

\* a pass-through that hands back silence instead of the block
CopyBlockSilent(input) ==
    [i \in 1..Len(input) |->
        [copy |-> TRUE, x |-> 0, dry |-> 0, wet |-> 0, layers |-> 0, pos |-> 0]]

\* memcpy(output, input, n * sizeof(double))
CopyBlock(input) ==
    [i \in 1..Len(input) |->
        [copy |-> TRUE, x |-> input[i], dry |-> 0, wet |-> 0, layers |-> 0, pos |-> 0]]

\* conv_history[pos] = x on the zero-filled buffer whose written prefix is data
HistWrite(data, pos, x) ==
    IF pos < Len(data) THEN [data EXCEPT ![pos + 1] = x]
    ELSE data \o [k \in 1..(pos - Len(data)) |-> 0] \o <<x>>

\* number of convolution layers summed into wet_sample: the primary one, and
\* the "shimmer" and "delayed" ones when engine.mix_level > 30
Layers(mix_level) == IF mix_level > 30000 THEN 3 ELSE 1

\* the sample loop: for each input sample, store it at history_pos, form the
\* output from dry_gain, wet_gain and the convolution at that position, and
\* advance history_pos modulo MAX_IR_SIZE
RECURSIVE SampleLoop(_, _, _, _, _, _)
SampleLoop(input, i, data, pos, gains, layers) ==
    IF i > Len(input) THEN [data |-> data, pos |-> pos, out |-> <<>>]
    ELSE LET rest == SampleLoop(input, i + 1, HistWrite(data, pos, input[i]),
                                (pos + 1) % MAX_IR_SIZE, gains, layers)
         IN  [rest EXCEPT !.out =
                 << [copy |-> FALSE, x |-> input[i], dry |-> gains.dry,
                     wet |-> gains.wet, layers |-> layers, pos |-> pos] >> \o @]

\* a regeneration in process that leaves the history buffer as it is
HistoryKept(regen, h) == h

\* "if (conv_history) memset(conv_history, 0, ...)" after the regeneration
\* in process_convolution_
HistoryAfterRegen(regen, h) == IF regen /\ h.alloc THEN ZeroHistory ELSE h

\* process_convolution_ on the block input; hist_ok says whether the calloc of
\* conv_history (made only when conv_history is NULL) succeeds
ProcessConvolution(input, hist_ok) ==
    IF NotReady(engine)
    THEN /\ output' = CopyBlock(input)
         /\ UNCHANGED << engine, conv_history, history_pos, process_counter,
                         regen_calls, fault >>
    ELSE LET regen == engine.ir_needs_update # 0
             e1    == IF regen THEN generate_impulse_response(engine) ELSE engine
             h1    == HistoryAfterRegen(regen, conv_history)
             p1    == IF regen THEN 0 ELSE history_pos
             h2    == Calloc(h1, NullHistory, ZeroHistory, hist_ok)
             p2    == IF h1.alloc THEN p1 ELSE 0
             gains == MixGains(e1.mix_level, Len(input), e1.ir_type)
             loop  == SampleLoop(input, 1, h2.data, p2, gains,
                                 Layers(e1.mix_level))
         IN  /\ engine' = e1
             /\ regen_calls' = IF regen THEN regen_calls + 1 ELSE regen_calls
             /\ process_counter' = process_counter + 1
             /\ IF ~h2.alloc /\ Len(input) > 0
                THEN \* conv_history[history_pos] = input[0] through NULL
                     /\ fault' = TRUE
                     /\ conv_history' = h2
                     /\ history_pos' = p2
                     /\ output' = <<>>
                ELSE /\ fault' = FALSE
                     /\ conv_history' = [h2 EXCEPT !.data = loop.data]
                     /\ history_pos' = loop.pos
                     /\ output' = loop.out

process_convolution_(input, hist_ok) ==
    /\ ~fault
    /\ Step
    /\ ProcessConvolution(input, hist_ok)
    /\ Called("process_convolution_", input)
    /\ UNCHANGED << g_sample_rate, g_initialized >>

(***************************************************************************)
(* set_param_float_                                                        *)
(***************************************************************************)
\* the field written by each case of the switch
ParamField(id) ==
    CASE id = 0 -> "room_size"
      [] id = 1 -> "decay_time"
      [] id = 2 -> "pre_delay"
      [] id = 3 -> "damping"
      [] id = 4 -> "low_freq"
      [] id = 5 -> "diffusion"
      [] id = 6 -> "mix_level"
      [] id = 7 -> "early_reflections"

KnownParam(id) == id \in 0..7

\* a setter that stores the value as it comes
StoredValueRaw(id, v) == v

\* the value stored by each case: fmax(0.1, fmin(10.0, v)) for decayTime,
\* fmax(0.0, fmin(100.0, v)) for preDelay and mix, v itself otherwise
StoredValue(id, v) ==
    CASE id = 1 -> Max(100, Min(10000, v))
      [] id = 2 -> Max(0, Min(100000, v))
      [] id = 6 -> Max(0, Min(100000, v))
      [] OTHER -> v

\* a setter that asks for a regeneration on every write but that of mix
NeedsUpdateAlways(id, old, v) == id # 6

\* needs_update after the switch: fabs(old_value - new) > 0.01 in every case
\* but mix, where new is *value (cases 0, 3, 4, 5, 7) or the clamped field
\* (cases 1, 2)
NeedsUpdate(id, old, v) ==
    CASE id = 6 -> FALSE
      [] id \in {1, 2} -> Abs(old - StoredValue(id, v)) > TOLERANCE
      [] OTHER -> Abs(old - v) > TOLERANCE

\* a setter that regenerates on a changed mix as on any other changed value
WriteRegeneratesOnMix(e, id, v) ==
    /\ KnownParam(id)
    /\ Abs(e[ParamField(id)] - StoredValue(id, v)) > TOLERANCE
    /\ e.initialized # 0

\* "if (needs_update && engine.initialized)": the write regenerates the IR
WriteRegenerates(e, id, v) ==
    /\ KnownParam(id)
    /\ NeedsUpdate(id, e[ParamField(id)], v)
    /\ e.initialized # 0

\* a regeneration that leaves the history buffer as it is
KeepHistory == UNCHANGED << conv_history, history_pos >>

\* "if (conv_history) { memset(...); history_pos = 0; }" of the setters
ClearHistory ==
    IF conv_history.alloc
    THEN conv_history' = ZeroHistory /\ history_pos' = 0
    ELSE UNCHANGED << conv_history, history_pos >>

\* the forced regeneration shared by set_param_float_ and set_ir_type_, on the
\* engine e (whose ir_needs_update is already 1): generate_impulse_response
\* starts with a memset of engine.impulse_response
ForceRegeneration(e) ==
    /\ regen_calls' = regen_calls + 1
    /\ IF e.impulse_response.alloc
       THEN /\ engine' = generate_impulse_response(e)
            /\ ClearHistory
            /\ fault' = FALSE
       ELSE /\ engine' = e
            /\ fault' = TRUE
            /\ UNCHANGED << conv_history, history_pos >>

\* a default case that marks the IR dirty
UnknownParamDirty ==
    /\ engine' = [engine EXCEPT !.ir_needs_update = 1]
    /\ UNCHANGED << conv_history, history_pos, regen_calls, fault >>

\* "default: ... return;": the switch does not know the identifier
UnknownParam ==
    UNCHANGED << engine, conv_history, history_pos, regen_calls, fault >>

SetParamFloat(id, v) ==
    /\ output' = <<>>
    /\ UNCHANGED process_counter
    /\ IF ~KnownParam(id)
       THEN UnknownParam
       ELSE LET e1 == [engine EXCEPT ![ParamField(id)] = StoredValue(id, v)]
            IN  IF WriteRegenerates(engine, id, v)
                THEN ForceRegeneration([e1 EXCEPT !.ir_needs_update = 1])
                ELSE /\ engine' = e1
                     /\ UNCHANGED << conv_history, history_pos, regen_calls,
                                     fault >>

set_param_float_(id, v) ==
    /\ ~fault
    /\ Step
    /\ SetParamFloat(id, v)
    /\ Called("set_param_float_", <<id, v>>)
    /\ UNCHANGED << g_sample_rate, g_initialized >>

(***************************************************************************)
(* set_ir_type_                                                            *)
(***************************************************************************)
\* strncpy(type, ir_type_str, n) into the zeroed type[32], read as a C string:
\* the first n characters of str, or all of str when its terminator comes first
StrNCpy(str, n) == SubSeq(str, 1, Min(n, Len(str)))

\* a chain that falls back to the hall when no name matches
TypeOfNameOrHall(type, old) ==
    IF \E t \in 1..Len(TypeNames) : TypeNames[t] = type
    THEN (CHOOSE t \in 1..Len(TypeNames) : TypeNames[t] = type) - 1
    ELSE IR_TYPE_HALL

\* the strcmp chain: the variant named by type, or old when no name matches
TypeOfName(type, old) ==
    IF \E t \in 1..Len(TypeNames) : TypeNames[t] = type
    THEN (CHOOSE t \in 1..Len(TypeNames) : TypeNames[t] = type) - 1
    ELSE old

\* a setter that takes every known or unknown name for a change of variant
TypeChangedAlways(old_type, new_type) == TRUE

\* "if (old_type != engine.ir_type)"
TypeChanged(old_type, new_type) == old_type # new_type

SetIrType(str, len) ==
    LET type == StrNCpy(str, IF len < 31 THEN len ELSE 31)
        new  == TypeOfName(type, engine.ir_type)
        e1   == [engine EXCEPT !.ir_type = new]
    IN  /\ output' = <<>>
        /\ UNCHANGED process_counter
        /\ IF TypeChanged(engine.ir_type, new)
           THEN IF engine.initialized # 0
                THEN ForceRegeneration([e1 EXCEPT !.ir_needs_update = 1])
                ELSE /\ engine' = [e1 EXCEPT !.ir_needs_update = 1]
                     /\ UNCHANGED << conv_history, history_pos, regen_calls,
                                     fault >>
           ELSE UNCHANGED << engine, conv_history, history_pos, regen_calls,
                             fault >>

set_ir_type_(str, len) ==
    /\ ~fault
    /\ Step
    /\ SetIrType(str, len)
    /\ Called("set_ir_type_", [str |-> str, len |-> len])
    /\ UNCHANGED << g_sample_rate, g_initialized >>

(***************************************************************************)
(* cleanup_convolution_engine_                                             *)
(***************************************************************************)
\* a cleanup that leaves the process counter as it is
CleanupKeepsCounter ==
    /\ engine' = [ engine EXCEPT
          !.impulse_response = NullBuffer,
          !.overlap_buffer = FALSE,
          !.fft_buffer = FALSE,
          !.temp_buffer = FALSE,
          !.initialized = 0 ]
    /\ conv_history' = NullHistory
    /\ history_pos' = 0
    /\ output' = <<>>
    /\ UNCHANGED << process_counter, regen_calls, fault >>

\* "if (p) { free(p); p = NULL; }" for the five buffers, then the flags
CleanupEngine ==
    /\ engine' = [ engine EXCEPT
          !.impulse_response = NullBuffer,
          !.overlap_buffer = FALSE,
          !.fft_buffer = FALSE,
          !.temp_buffer = FALSE,
          !.initialized = 0 ]
    /\ conv_history' = NullHistory
    /\ history_pos' = 0
    /\ process_counter' = 0
    /\ output' = <<>>
    /\ UNCHANGED << regen_calls, fault >>

cleanup_convolution_engine_ ==
    /\ ~fault
    /\ Step
    /\ CleanupEngine
    /\ Called("cleanup_convolution_engine_", 0)
    /\ UNCHANGED << g_sample_rate, g_initialized >>

(***************************************************************************)
(* The exported bridge (wasm_bridge.c).                                    *)
(***************************************************************************)
init_engine(sr, avail) ==
    /\ ~fault
    /\ Step
    /\ g_sample_rate' = sr
    /\ InitEngine(sr, avail)
    /\ g_initialized' = 1
    /\ Called("init_engine", sr)

process_audio(input, hist_ok) ==
    /\ ~fault
    /\ Step
    /\ IF g_initialized = 0
       THEN /\ output' = CopyBlock(input)
            /\ UNCHANGED << engine, conv_history, history_pos, process_counter,
                            regen_calls, fault >>
       ELSE ProcessConvolution(input, hist_ok)
    /\ Called("process_audio", input)
    /\ UNCHANGED << g_sample_rate, g_initialized >>

set_parameter(id, v) ==
    /\ ~fault
    /\ Step
    /\ IF g_initialized = 0
       THEN /\ output' = <<>>
            /\ UNCHANGED << engine, conv_history, history_pos, process_counter,
                            regen_calls, fault >>
       ELSE SetParamFloat(id, v)
    /\ Called("set_parameter", <<id, v>>)
    /\ UNCHANGED << g_sample_rate, g_initialized >>

\* padded_type[20]: the name cut to 20 characters and filled up with spaces
PadType(name) ==
    [k \in 1..20 |-> IF k <= Len(name) THEN name[k] ELSE " "]

set_ir_type(name) ==
    /\ ~fault
    /\ Step
    /\ IF g_initialized = 0
       THEN /\ output' = <<>>
            /\ UNCHANGED << engine, conv_history, history_pos, process_counter,
                            regen_calls, fault >>
       ELSE SetIrType(PadType(name), 20)
    /\ Called("set_ir_type", name)
    /\ UNCHANGED << g_sample_rate, g_initialized >>

cleanup_engine ==
    /\ ~fault
    /\ Step
    /\ IF g_initialized # 0
       THEN CleanupEngine /\ g_initialized' = 0
       ELSE /\ output' = <<>>
            /\ UNCHANGED << engine, conv_history, history_pos, process_counter,
                            regen_calls, fault,
                            g_initialized >>
    /\ Called("cleanup_engine", 0)
    /\ UNCHANGED g_sample_rate

(***************************************************************************)
(* Specification.                                                          *)
(***************************************************************************)
\* the calls of the engine's own interface and of the exported bridge
Next ==
    \/ \E i \in InitInputs : init_convolution_engine_(i.sr, i.avail)
    \/ \E input \in Blocks, hist_ok \in HistOutcomes :
          process_convolution_(input, hist_ok)
    \/ \E w \in CoreWrites : set_param_float_(w[1], w[2])
    \/ \E a \in TypeArgs : set_ir_type_(a.str, a.len)
    \/ cleanup_convolution_engine_
    \/ \E i \in InitInputs : init_engine(i.sr, i.avail)
    \/ \E input \in Blocks, hist_ok \in HistOutcomes :
          process_audio(input, hist_ok)
    \/ \E w \in CoreWrites : set_parameter(w[1], w[2])
    \/ \E nm \in NameInputs : set_ir_type(nm)
    \/ cleanup_engine

Spec == Init /\ [][Next]_vars

\* the parameter writes in full, on an engine that is or is not initialized
WriteNext ==
    \/ \E i \in InitInputs :
          steps < MaxWriteSteps /\ init_convolution_engine_(i.sr, i.avail)
    \/ \E w \in ParamWrites :
          steps < MaxWriteSteps /\ set_param_float_(w[1], w[2])
    \/ \E input \in Blocks :
          steps < MaxWriteSteps /\ process_convolution_(input, TRUE)

WriteSpec == Init /\ [][WriteNext]_vars

\* the output sample as a function: the sample x, the first tap of the IR,
\* the other slots of the history that are not zero with the taps they meet,
\* the mix, the block length and the variant are drawn, and the arithmetic of
\* the sample loop is applied to them
SampleValues == {1000, DblMax}

FirstTaps == {0, 500}

\* a slot holding the largest finite value or a small one, under a tap above
\* or below 1 in magnitude (the synthesis scales the peak of the IR to 10)
TermChoices ==
    [ h : {DblMax, -300}, ir : {-1600, 2000}, even : BOOLEAN, ird : {0, 500} ]

TermLists == UNION { [1..k -> TermChoices] : k \in 0..MaxTerms }

MixLevels == {0, 30000, 45000}

BlockLengths == {1, 5000}

Variants == {IR_TYPE_HALL, IR_TYPE_SPRING}

SampleInit ==
    /\ EngineInit
    /\ probe \in [ phase : {"in"}, x : SampleValues, ir0 : FirstTaps,
                    others : TermLists, mix_level : MixLevels,
                    n : BlockLengths, ir_type : Variants ]

ProcessSample ==
    /\ probe.phase = "in"
    /\ LET terms == << [h |-> probe.x, ir |-> probe.ir0, even |-> TRUE,
                         ird |-> probe.ir0] >> \o probe.others
       IN  probe' =
             [ phase |-> "out", x |-> probe.x, ir0 |-> probe.ir0,
               others |-> probe.others, mix_level |-> probe.mix_level,
               n |-> probe.n, ir_type |-> probe.ir_type,
               primary |-> ConvSums[terms].wet_sample,
               wet_sample |-> WetSample(terms, probe.mix_level),
               out |-> OutputSample(probe.x, terms, probe.mix_level,
                                    probe.n, probe.ir_type) ]
    /\ UNCHANGED << engine, conv_history, history_pos, process_counter,
                    g_sample_rate, g_initialized, output, call, regen_calls,
                    steps, fault >>

SampleNext == ProcessSample

SampleSpec == SampleInit /\ [][SampleNext]_vars

\* the history indices read for one offset j of the convolution loops, as a
\* function of the cursor, of ir_length (from the decay time and the sample
\* rate) and of the mix; j is the first, the second, the last but one or the
\* last offset of the primary loop
SampleRates == {44100, 48000, 96000}

DecayTimes == {100, 2500, 10000}

Cursors == {0, 1, MAX_IR_SIZE \div 2, MAX_IR_SIZE - 1}

Offsets(ir_len) == {0, 1, ir_len - 2, ir_len - 1}

IndexInit ==
    /\ EngineInit
    /\ probe \in [ phase : {"cursor"}, sample_rate : SampleRates,
                    decay_time : DecayTimes, history_pos : Cursors,
                    mix_level : MixLevels, which : 1..4 ]

ReadHistory ==
    /\ probe.phase = "cursor"
    /\ LET ir_len == IrLength(probe.decay_time, probe.sample_rate)
           j      == CHOOSE o \in Offsets(ir_len) :
                        Cardinality({ q \in Offsets(ir_len) : q < o })
                           = probe.which - 1
       IN  probe' = [ phase |-> "read", sample_rate |-> probe.sample_rate,
                      decay_time |-> probe.decay_time,
                      history_pos |-> probe.history_pos,
                      mix_level |-> probe.mix_level, which |-> probe.which,
                      ir_length |-> ir_len, j |-> j,
                      reads |-> HistoryReads(probe.history_pos, j, ir_len,
                                             probe.mix_level),
                      next_pos |-> NextPos(probe.history_pos) ]
    /\ UNCHANGED << engine, conv_history, history_pos, process_counter,
                    g_sample_rate, g_initialized, output, call, regen_calls,
                    steps, fault >>

IndexNext == ReadHistory

IndexSpec == IndexInit /\ [][IndexNext]_vars

\* the indices written for one tap of the early reflections, as a function of
\* the stored parameters (room size and diffusion are stored as they are
\* written, below 0 and above 100 included), the variant and the sample rate
RoomSizes == {-100000, 0, 50000, 100000, 250000}

PreDelays == {0, 20000, 100000}

Diffusions == {-50000, 0, 80000, 200000}

EarlyVariants == { IR_TYPE_HALL, IR_TYPE_ROOM, IR_TYPE_FREEZE, IR_TYPE_REVERSE,
                   IR_TYPE_GATED, IR_TYPE_CHORUS }

Taps == {1, 5, Len(tap_times)}

EarlyInit ==
    /\ EngineInit
    /\ probe \in [ phase : {"tap"}, room_size : RoomSizes,
                    pre_delay : PreDelays, diffusion : Diffusions,
                    decay_time : DecayTimes, sample_rate : SampleRates,
                    ir_type : EarlyVariants, tap : Taps ]

WriteTap ==
    /\ probe.phase = "tap"
    /\ probe' = [ phase |-> "written", room_size |-> probe.room_size,
                  pre_delay |-> probe.pre_delay,
                  diffusion |-> probe.diffusion,
                  decay_time |-> probe.decay_time,
                  sample_rate |-> probe.sample_rate,
                  ir_type |-> probe.ir_type, tap |-> probe.tap,
                  writes |-> EarlyWrites(probe.tap, probe) ]
    /\ UNCHANGED << engine, conv_history, history_pos, process_counter,
                    g_sample_rate, g_initialized, output, call, regen_calls,
                    steps, fault >>

EarlyNext == WriteTap

EarlySpec == EarlyInit /\ [][EarlyNext]_vars

\* the number of reflections of the tail as a function of the stored room
\* size and of ir_length; the room sizes reach from below 0 to values whose
\* count leaves the range of int, and the conversion then yields INT_MIN
\* (x86, WebAssembly with checked conversions) or saturates
TailRoomSizes == RoomSizes \cup {10000, 3000000, 400000000}

Conversions == {IntMin, IntMax}

TailInit ==
    /\ EngineInit
    /\ probe \in [ phase : {"tail"}, room_size : TailRoomSizes,
                    decay_time : DecayTimes, sample_rate : SampleRates,
                    conv : Conversions ]

CountReflections ==
    /\ probe.phase = "tail"
    /\ LET ir_len == IrLength(probe.decay_time, probe.sample_rate)
       IN  probe' = [ phase |-> "counted", room_size |-> probe.room_size,
                      decay_time |-> probe.decay_time,
                      sample_rate |-> probe.sample_rate, conv |-> probe.conv,
                      ir_length |-> ir_len,
                      overflow |-> ReflectionsOverflow(ir_len, probe.room_size),
                      num_reflections |->
                          NumReflections(ir_len, probe.room_size, probe.conv) ]
    /\ UNCHANGED << engine, conv_history, history_pos, process_counter,
                    g_sample_rate, g_initialized, output, call, regen_calls,
                    steps, fault >>

TailNext == CountReflections

TailSpec == TailInit /\ [][TailNext]_vars

\* the output sample at one position of a stream, for the same history, as it
\* comes out of a block of n1 samples and out of a block of n2 samples: the
\* lengths lie on both sides of the 4096 of the live boost (a stream of 8192
\* samples is one block of 8192 or two of 4096)
PartitionLengths == {1, LIVE_BLOCK, LIVE_BLOCK + 1, 2 * LIVE_BLOCK}

QuietSamples == {10, 1000}

QuietMixLevels == {0, 500, 30000}

PartitionInit ==
    /\ EngineInit
    /\ probe \in [ phase : {"stream"}, x : QuietSamples, ir0 : FirstTaps,
                    mix_level : QuietMixLevels, ir_type : Variants,
                    n1 : PartitionLengths, n2 : PartitionLengths ]

ProcessSplit ==
    /\ probe.phase = "stream"
    /\ LET terms == << [h |-> probe.x, ir |-> probe.ir0, even |-> TRUE,
                         ird |-> probe.ir0] >>
       IN  probe' = [ phase |-> "split", x |-> probe.x, ir0 |-> probe.ir0,
                      mix_level |-> probe.mix_level,
                      ir_type |-> probe.ir_type,
                      n1 |-> probe.n1, n2 |-> probe.n2,
                      out1 |-> OutputSample(probe.x, terms, probe.mix_level,
                                            probe.n1, probe.ir_type),
                      out2 |-> OutputSample(probe.x, terms, probe.mix_level,
                                            probe.n2, probe.ir_type) ]
    /\ UNCHANGED << engine, conv_history, history_pos, process_counter,
                    g_sample_rate, g_initialized, output, call, regen_calls,
                    steps, fault >>

PartitionNext == ProcessSplit

PartitionSpec == PartitionInit /\ [][PartitionNext]_vars

\* fast_rand as a function of engine.rand_state.  The generator has the full
\* period 2^31 (the increment is odd and the multiplier is 1 modulo 4), so
\* every value of 0..2^31-1 is a state the engine comes to hold; the states
\* drawn are the seed, states spread over the range, the largest one, and the
\* state that the engine holds after 1905178877 calls from the seed
StateBeforeMax == 230538014

RandStates ==
    { RAND_SEED, StateBeforeMax, RAND_MASK }
       \cup { k * 71582788 : k \in 0..29 }

RandInit ==
    /\ EngineInit
    /\ probe \in [ phase : {"seed"}, rand_state : RandStates, draws : {0} ]

\* one call of fast_rand: the state is advanced and the value is returned
FastRand ==
    /\ probe.phase \in {"seed", "drawn"}
    /\ probe.draws < MaxDraws
    /\ probe' = [ phase |-> "drawn",
                  rand_state |-> fast_rand_state(probe.rand_state),
                  value |-> fast_rand(probe.rand_state),
                  draws |-> probe.draws + 1 ]
    /\ UNCHANGED << engine, conv_history, history_pos, process_counter,
                    g_sample_rate, g_initialized, output, call, regen_calls,
                    steps, fault >>

RandNext == FastRand

RandSpec == RandInit /\ [][RandNext]_vars

\* the dry/wet law as a function of the mix, at two mix levels, for a block
\* length and a variant: the ends of the range, both sides of every boundary
\* of the piecewise law and points inside the segments
MixPoints ==
    { 0, 500, 990, 1000, 5000, 9999, 10000, 20000, 29999, 30000, 40000,
      49999, 50000, 65000, 79999, 80000, 100000 }

MixInit ==
    /\ EngineInit
    /\ probe \in [ phase : {"mix"}, m1 : MixPoints, m2 : MixPoints,
                    n : BlockLengths, ir_type : Variants ]

MixProbe ==
    /\ probe.phase = "mix"
    /\ probe' = [ phase |-> "gains", m1 |-> probe.m1, m2 |-> probe.m2,
                  n |-> probe.n, ir_type |-> probe.ir_type,
                  g1 |-> MixGains(probe.m1, probe.n, probe.ir_type),
                  g2 |-> MixGains(probe.m2, probe.n, probe.ir_type) ]
    /\ UNCHANGED << engine, conv_history, history_pos, process_counter,
                    g_sample_rate, g_initialized, output, call, regen_calls,
                    steps, fault >>

MixNext == MixProbe

MixSpec == MixInit /\ [][MixNext]_vars

(***************************************************************************)
(* Properties.                                                             *)
(***************************************************************************)
\* the state a call of process must leave alone when it passes the block
\* through: the engine record (parameters, variant, IR, ir_length, dirty
\* flag, noise state), the history buffer and its cursor, and the counters
EngineState == << engine, conv_history, history_pos, process_counter,
                  regen_calls, fault >>

\* output is the block input, sample for sample
IsCopyOf(out, input) ==
    /\ Len(out) = Len(input)
    /\ \A i \in 1..Len(input) : out[i].copy /\ out[i].x = input[i]

\* C1: whenever the engine is not ready, process_convolution_ (and
\* process_audio, also when the bridge itself is not initialized) hands the
\* input block back unchanged, whatever the block and its length, and leaves
\* the engine state as it was
C1_PassThrough ==
    [][ ( \/ call'.op = "process_convolution_" /\ NotReady(engine)
          \/ call'.op = "process_audio"
               /\ (NotReady(engine) \/ g_initialized = 0) )
        => (IsCopyOf(output', call'.arg) /\ UNCHANGED EngineState) ]_vars

\* a block of two samples has been passed through by an engine that was
\* cleaned up after having synthesized an IR
C1_Witness ==
    /\ call.op \in {"process_convolution_", "process_audio"}
    /\ engine.initialized = 0
    /\ regen_calls > 0
    /\ Len(output) = 2
    /\ IsCopyOf(output, [i \in 1..2 |-> Sample(i)])

\* C2: on an initialized engine, for every parameter of the switch but mix,
\* a write that repeats the write just made runs no regeneration, and a write
\* whose stored value differs from the value held by more than the tolerance
\* runs exactly one and leaves the dirty flag clear, so that the process call
\* that follows (which regenerates only on a set flag) runs none
C2_DirtyFlag ==
    [][ /\ ( /\ call'.op = "set_param_float_"
             /\ engine.initialized # 0
             /\ call'.arg[1] \in (0..7) \ {6} )
           => LET id == call'.arg[1]
                  v  == call'.arg[2]
              IN  /\ call'.again => regen_calls' = regen_calls
                  /\ Abs(StoredValue(id, v) - engine[ParamField(id)])
                          > TOLERANCE
                       => /\ regen_calls' = regen_calls + 1
                          /\ ~fault' => engine'.ir_needs_update = 0
        /\ (call'.op = "process_convolution_" /\ engine.ir_needs_update = 0)
           => regen_calls' = regen_calls ]_vars

\* after initialization one write has regenerated the IR, the same write has
\* been made again, and the IR has still been synthesized once only
C2_Witness ==
    /\ call.op = "set_param_float_"
    /\ call.again
    /\ KnownParam(call.arg[1]) /\ call.arg[1] # 6
    /\ engine.initialized # 0
    /\ engine.impulse_response.synth # <<>>
    /\ engine.ir_needs_update = 0
    /\ regen_calls = 1

\* the engine record of a freshly constructed engine after its first
\* initialization at rate sr, every calloc succeeding
FreshEngine(sr) ==
    [ EngineDefaults EXCEPT
        !.sample_rate = sr, !.ir_needs_update = 1,
        !.impulse_response = ZeroBuffer,
        !.overlap_buffer = TRUE, !.fft_buffer = TRUE, !.temp_buffer = TRUE,
        !.buffer_size = MAX_IR_SIZE * 2, !.initialized = 1 ]

\* C5: cleanup followed by initialize leaves the engine where a freshly
\* constructed engine is after initialize: what the next syntheses and
\* process calls read (noise state, variant, parameters, mix, dirty flag,
\* history buffer, cursor) has its initial value, whatever came before the
\* cleanup
C5_CleanupRestores ==
    [][ ( /\ call.op = "cleanup_convolution_engine_"
          /\ call'.op = "init_convolution_engine_"
          /\ engine'.impulse_response.alloc /\ conv_history'.alloc )
        => /\ SynthInputs(engine') = SynthInputs(FreshEngine(call'.arg))
           /\ engine'.mix_level = EngineDefaults.mix_level
           /\ engine'.ir_needs_update = 1
           /\ conv_history' = ZeroHistory
           /\ history_pos' = 0 ]_vars

\* C3: every output sample is finite and of magnitude at most 1.8
C3_Bounded ==
    probe.phase = "out" => (probe.out.k = "fin" /\ Abs(probe.out.v) <= 1800)

\* C6: every synthesis at 48000 Hz leaves ir_length equal to the truncated
\* product of decay time and sample rate clamped to [24000, MAX_IR_SIZE]
\* (decay_time is in thousandths, so the product is divided by 1000)
C6_IrLength ==
    [][ (regen_calls' > regen_calls /\ ~fault' /\ engine'.sample_rate = 48000)
          => /\ engine'.ir_length >= 24000
             /\ engine'.ir_length <= 720000
             /\ engine'.ir_length =
                  Max(48000 \div 2,
                      Min(MAX_IR_SIZE, (engine'.decay_time * 48000) \div 1000))
      ]_vars

\* the shortest decay time has been written to an initialized engine at
\* 48000 Hz and the synthesis has raised the length to the floor
C6_Witness ==
    /\ engine.sample_rate = 48000
    /\ engine.decay_time = 100
    /\ engine.impulse_response.synth # <<>>
    /\ engine.impulse_response.synth[1].params.decay_time = 100
    /\ engine.ir_length = 24000

\* the ranges of the three clamped parameters, in thousandths
InRange(e) ==
    /\ e.decay_time >= 100 /\ e.decay_time <= 10000
    /\ e.pre_delay >= 0 /\ e.pre_delay <= 100000
    /\ e.mix_level >= 0 /\ e.mix_level <= 100000

\* C7: decay time, pre-delay and mix stay in [0.1, 10], [0, 100] and
\* [0, 100] in every state, and a write of one of them stores the value if it
\* lies in the range, the lower bound if it lies below and the upper bound
\* if it lies above
C7_Clamped ==
    [][ /\ InRange(engine) /\ InRange(engine')
        /\ (call'.op = "set_param_float_" /\ call'.arg[1] \in {1, 2, 6})
           => LET id  == call'.arg[1]
                  v   == call'.arg[2]
                  lo  == IF id = 1 THEN 100 ELSE 0
                  hi  == IF id = 1 THEN 10000 ELSE 100000
                  new == engine'[ParamField(id)]
              IN  /\ v < lo => new = lo
                  /\ v > hi => new = hi
                  /\ (v >= lo /\ v <= hi) => new = v ]_vars

\* a decay time above the range and a pre-delay below it have been written
\* and the bounds are what the engine holds
C7_Witness ==
    /\ call.op = "set_param_float_"
    /\ call.arg = <<2, -5000>>
    /\ engine.pre_delay = 0
    /\ engine.decay_time = 10000

\* C8: a write of the mix (identifier 6) changes the stored mix level and
\* nothing else: dirty flag, IR, ir_length, noise state, history buffer and
\* cursor stay, and no regeneration runs
C8_MixOnly ==
    [][ (call'.op = "set_param_float_" /\ call'.arg[1] = 6)
        => /\ engine' = [engine EXCEPT !.mix_level = engine'.mix_level]
           /\ UNCHANGED << conv_history, history_pos, regen_calls, fault >>
      ]_vars

\* the mix has been changed on an engine that holds a synthesized IR and
\* samples in its history
C8_Witness ==
    /\ call.op = "set_param_float_"
    /\ call.arg[1] = 6
    /\ engine.mix_level # EngineDefaults.mix_level
    /\ engine.impulse_response.synth # <<>>
    /\ history_pos > 0

C10_UnknownId ==
    [][ (call'.op = "set_param_float_" /\ ~(call'.arg[1] \in 0..7))
        => UNCHANGED << engine, conv_history, history_pos, regen_calls,
                        fault >> ]_vars

\* an unknown identifier has been written to an initialized engine whose
\* dirty flag is still set
C10_Witness ==
    /\ call.op = "set_param_float_"
    /\ ~(call.arg[1] \in 0..7)
    /\ engine.initialized # 0
    /\ engine.ir_needs_update = 1
    /\ regen_calls = 0

\* C11: a write of any identifier of the documented enumeration (0..9,
\* highFreq = 8 and lateMix = 9 included) stores the value in the field it
\* names (clamped for decayTime, preDelay and mix) and, on an initialized
\* engine, a change of more than the tolerance in a field other than the mix
\* runs a regeneration
C11_AllIdentifiers ==
    [][ (call'.op = "set_param_float_" /\ call'.arg[1] \in 0..9)
        => LET id    == call'.arg[1]
               v     == call'.arg[2]
               field == IF id = 8 THEN "high_freq"
                        ELSE IF id = 9 THEN "late_mix" ELSE ParamField(id)
           IN  /\ engine'[field] = StoredValue(id, v)
               /\ ( /\ id # 6
                    /\ engine.initialized # 0
                    /\ Abs(engine[field] - StoredValue(id, v)) > TOLERANCE )
                  => regen_calls' = regen_calls + 1 ]_vars

\* nm is one of the fifteen variant names, and the variant it denotes
KnownName(nm) == \E t \in 1..Len(TypeNames) : TypeNames[t] = nm

NamedType(nm) == (CHOOSE t \in 1..Len(TypeNames) : TypeNames[t] = nm) - 1

\* the name that a (string, length) pair handed to set_ir_type_ denotes
ArgName(a) == SubSeq(a.str, 1, Min(a.len, Len(a.str)))

\* C12: set_ir_type_ with a name that is not a variant name leaves the
\* variant, the dirty flag, the IR, the noise state, the history buffer and
\* its cursor as they were and runs no regeneration
C12_UnknownName ==
    [][ (call'.op = "set_ir_type_" /\ ~KnownName(ArgName(call'.arg)))
        => UNCHANGED << engine, conv_history, history_pos, process_counter,
                        regen_calls, fault >> ]_vars

\* an unknown name has been handed to an initialized engine whose variant is
\* the plate and whose IR has been synthesized
C12_Witness ==
    /\ call.op = "set_ir_type_"
    /\ ~KnownName(ArgName(call.arg))
    /\ engine.initialized # 0
    /\ engine.ir_type = IR_TYPE_PLATE
    /\ engine.impulse_response.synth # <<>>
    /\ engine.ir_needs_update = 0

\* the block has been convolved (not passed through) by the last call
Convolved(out) == \E i \in 1..Len(out) : ~out[i].copy

\* C13: set_ir_type_ with a known name makes the variant the named one.  If
\* the variant differs from the current one, the dirty flag is set on an
\* engine that is not initialized, and on an initialized engine the synthesis
\* runs inside the call: on an allocated IR buffer the IR is synthesized for
\* the new variant, the dirty flag is clear, the history is empty and the
\* cursor is 0.  If the variant is the current one, nothing changes.  Every
\* block that is convolved is convolved with an IR synthesized for the
\* variant the engine holds
C13_VariantChange ==
    [][ /\ (call'.op = "set_ir_type_" /\ KnownName(ArgName(call'.arg)))
           => LET new == NamedType(ArgName(call'.arg))
              IN  /\ engine'.ir_type = new
                  /\ IF new = engine.ir_type
                     THEN UNCHANGED << engine, conv_history, history_pos,
                                       regen_calls, fault >>
                     ELSE IF engine.initialized = 0
                     THEN /\ engine'.ir_needs_update = 1
                          /\ regen_calls' = regen_calls
                     ELSE /\ regen_calls' = regen_calls + 1
                          /\ engine.impulse_response.alloc
                               => /\ ~fault'
                                  /\ engine'.ir_needs_update = 0
                                  /\ engine'.impulse_response.synth # <<>>
                                  /\ engine'.impulse_response.synth[1]
                                        .params.ir_type = new
                                  /\ conv_history'.data = <<>>
                                  /\ history_pos' = 0
        /\ ( /\ call'.op \in {"process_convolution_", "process_audio"}
             /\ Convolved(output') )
           => /\ engine'.impulse_response.synth # <<>>
              /\ engine'.impulse_response.synth[1].params.ir_type
                    = engine'.ir_type ]_vars

\* the variant has been changed to the plate on an engine that had convolved
\* a block: the IR has been synthesized a second time, for the plate, and the
\* history that block had filled is empty
C13_Witness ==
    /\ call.op = "set_ir_type_"
    /\ engine.ir_type = IR_TYPE_PLATE
    /\ process_counter = 1
    /\ regen_calls = 2
    /\ engine.impulse_response.synth # <<>>
    /\ engine.impulse_response.synth[1].params.ir_type = IR_TYPE_PLATE
    /\ conv_history = ZeroHistory
    /\ history_pos = 0

\* C14: through the bridge, after init_engine, set_ir_type with a known
\* variant name makes the engine's variant the named one
C14_BridgeVariant ==
    [][ (call'.op = "set_ir_type" /\ g_initialized # 0 /\ KnownName(call'.arg))
        => engine'.ir_type = NamedType(call'.arg) ]_vars

\* C15: in every state an engine that reports itself initialized holds an
\* allocated IR buffer and an allocated history buffer
C15_ReadyImpliesAllocated ==
    engine.initialized # 0
      => (engine.impulse_response.alloc /\ conv_history.alloc)

\* C16: no call reads or writes through a NULL IR or history buffer
C16_NoNullAccess == fault = FALSE

\* every buffer is NULL, the engine is not initialized, cursor and counter
\* are 0
Released(e, h, pos, counter) ==
    /\ e.impulse_response = NullBuffer
    /\ ~e.overlap_buffer /\ ~e.fft_buffer /\ ~e.temp_buffer
    /\ h = NullHistory
    /\ e.initialized = 0
    /\ pos = 0
    /\ counter = 0

\* C17: after cleanup_convolution_engine_ (and after cleanup_engine on an
\* initialized bridge), from any state, the five buffers are NULL, the engine
\* is not initialized, the cursor and the process counter are 0; a cleanup
\* made in such a state changes nothing (no buffer is left to free), and so
\* does cleanup_engine on a bridge that is not initialized
C17_Cleanup ==
    [][ /\ ( \/ call'.op = "cleanup_convolution_engine_"
             \/ call'.op = "cleanup_engine" /\ g_initialized # 0 )
           => /\ Released(engine', conv_history', history_pos',
                          process_counter')
              /\ ~fault'
              /\ Released(engine, conv_history, history_pos, process_counter)
                   => UNCHANGED << engine, conv_history, history_pos,
                                   process_counter, regen_calls, fault >>
        /\ (call'.op = "cleanup_engine" /\ g_initialized = 0)
           => UNCHANGED << engine, conv_history, history_pos,
                           process_counter, regen_calls, fault >> ]_vars

\* an engine that had synthesized an IR and convolved a block has been
\* cleaned up twice in a row
C17_Witness ==
    /\ call.op = "cleanup_convolution_engine_"
    /\ call.again
    /\ regen_calls > 0
    /\ Released(engine, conv_history, history_pos, process_counter)

\* C18: an initialization at rate sr after which every buffer is allocated
\* leaves the engine initialized, the dirty flag set and the sample rate sr;
\* the parameters, the variant and the noise state are as before, and a
\* buffer that was allocated before is the same buffer with the same content
C18_Initialize ==
    [][ ( /\ call'.op \in {"init_convolution_engine_", "init_engine"}
          /\ engine'.impulse_response.alloc /\ conv_history'.alloc
          /\ engine'.overlap_buffer /\ engine'.fft_buffer
          /\ engine'.temp_buffer )
        => /\ engine'.initialized = 1
           /\ engine'.ir_needs_update = 1
           /\ engine'.sample_rate = call'.arg
           /\ engine' = [ engine EXCEPT
                 !.initialized = 1, !.ir_needs_update = 1,
                 !.sample_rate = call'.arg,
                 !.buffer_size = engine'.buffer_size,
                 !.impulse_response =
                     IF @.alloc THEN @ ELSE engine'.impulse_response,
                 !.overlap_buffer = TRUE, !.fft_buffer = TRUE,
                 !.temp_buffer = TRUE ]
           /\ conv_history.alloc => conv_history' = conv_history
           /\ UNCHANGED << history_pos, process_counter, regen_calls >>
      ]_vars

\* the engine has been initialized again, without a cleanup, while it held a
\* synthesized IR and a sample in its history
C18_Witness ==
    /\ call.op \in {"init_convolution_engine_", "init_engine"}
    /\ engine.initialized = 1
    /\ engine.ir_needs_update = 1
    /\ engine.impulse_response.synth # <<>>
    /\ conv_history.alloc /\ conv_history.data # <<>>
    /\ history_pos > 0

\* C19: every call of fast_rand leaves the state within 0..2^31-1 and returns
\* a value of [0, 1), strictly below 1 (values are in millionths)
C19_UnitInterval ==
    probe.phase = "drawn"
      => /\ probe.rand_state \in 0..RAND_MASK
         /\ probe.value >= 0
         /\ probe.value < 1000000

\* C20: for a block length and a variant, of two mix levels the higher one
\* has the dry gain that is not larger and the wet gain that is not smaller
C20_Monotonic ==
    (probe.phase = "gains" /\ probe.m1 < probe.m2)
      => /\ probe.g1.dry >= probe.g2.dry
         /\ probe.g1.wet <= probe.g2.wet

\* the call is a process call that reaches the convolution
Processing ==
    /\ ~NotReady(engine)
    /\ \/ call'.op = "process_convolution_"
       \/ call'.op = "process_audio" /\ g_initialized # 0

\* C21: a process call on a ready engine whose dirty flag is set runs one
\* regeneration and clears the flag, and the block is handled on an emptied
\* history from cursor 0: afterwards the history holds the samples of the
\* block and nothing else, sample i was stored at slot i - 1, and the cursor
\* is the length of the block.  No block is convolved while the flag is set,
\* and every regeneration leaves in the history only what was recorded after
\* it
C21_RegenerateFirst ==
    [][ /\ (Processing /\ engine.ir_needs_update # 0)
           => /\ regen_calls' = regen_calls + 1
              /\ engine'.ir_needs_update = 0
              /\ engine'.impulse_response.synth
                    = << SynthInputs(engine) >>
              /\ ~fault'
                   => /\ conv_history'.data = call'.arg
                      /\ history_pos' = Len(call'.arg)
                      /\ \A i \in 1..Len(output') :
                            ~output'[i].copy /\ output'[i].pos = i - 1
        /\ (Processing /\ Convolved(output'))
              => engine'.ir_needs_update = 0
        /\ (regen_calls' > regen_calls /\ ~fault')
              => \/ conv_history'.data = <<>> /\ history_pos' = 0
                 \/ Processing /\ conv_history'.data = call'.arg ]_vars

\* a process call has regenerated the IR a second time, on an engine that was
\* initialized again after its first process call, and the history holds the
\* block of this call only
C21_Witness ==
    /\ call.op \in {"process_convolution_", "process_audio"}
    /\ process_counter = 2
    /\ regen_calls = 2
    /\ SynthParams(engine) = SynthParams(EngineDefaults)
    /\ engine.ir_needs_update = 0
    /\ Len(call.arg) = 1
    /\ conv_history.data = call.arg
    /\ history_pos = 1

\* C22: the cursor stays in [0, MAX_IR_SIZE) and every history index read,
\* in the primary loop and in the two layers added when mix > 30, lies in
\* [0, MAX_IR_SIZE) and is (cursor - k) mod MAX_IR_SIZE for its look-back
\* distance k
C22_HistoryIndex ==
    probe.phase = "read"
      => /\ probe.next_pos \in 0..(MAX_IR_SIZE - 1)
         /\ probe.next_pos = (probe.history_pos + 1) % MAX_IR_SIZE
         /\ \A r \in probe.reads :
               /\ r.idx \in 0..(MAX_IR_SIZE - 1)
               /\ r.idx = (probe.history_pos - r.k) % MAX_IR_SIZE

\* C23: at every mix level the wet sample that is mixed with the dry signal
\* is the sum of the primary loop, the inner product of the IR and the
\* history, and nothing else
C23_InnerProduct ==
    probe.phase = "out" => probe.wet_sample = probe.primary

\* C24: whatever the stored room size and diffusion, the variant and the
\* sample rate, every index at which the early reflections write the impulse
\* response lies in [0, MAX_IR_SIZE)
C24_WritesInBuffer ==
    probe.phase = "written"
      => \A idx \in probe.writes : idx \in 0..(MAX_IR_SIZE - 1)

\* C25: for every stored room size and every ir_length the number of
\* reflections of the tail lies in [50000, 200000]
C25_ReflectionsBounded ==
    probe.phase = "counted"
      => (probe.num_reflections >= 50000 /\ probe.num_reflections <= 200000)

\* a count far above the cap (room size 100, ir_length 720000) has been
\* capped at 200000
C25_Witness ==
    /\ probe.phase = "counted"
    /\ probe.room_size = 100000
    /\ probe.ir_length = MAX_IR_SIZE
    /\ ~probe.overflow
    /\ probe.num_reflections = MAX_REFLECTIONS

\* the parameters that the synthesis reads and set_param_float_ writes
SynthesisFields ==
    { "room_size", "decay_time", "pre_delay", "damping", "low_freq",
      "diffusion", "early_reflections" }

\* C26: on an initialized engine whose dirty flag is clear, every stored
\* synthesis parameter is within the tolerance of the value that the
\* synthesis of the current IR read
C26_Consistent ==
    ( /\ engine.initialized # 0
      /\ engine.ir_needs_update = 0
      /\ engine.impulse_response.synth # <<>> )
      => \A f \in SynthesisFields :
            Abs(engine[f] - engine.impulse_response.synth[1].params[f])
               <= TOLERANCE

\* C27: the output sample at a stream position, for the same history, does
\* not depend on the length of the block that the sample arrives in
C27_BlockIndependent ==
    probe.phase = "split" => probe.out1 = probe.out2

=============================================================================
